---- MODULE Spec2Model ----
(***************************************************************************)
(* Model of the NextExpense budget bot (src/budgetbot/src): the add-expense *)
(* conversation driven by the aiogram handlers of main.py, the per-user    *)
(* FSM context (state + data dictionary) they read and write, and the      *)
(* sqlite tables of database.py they commit to.                            *)
(*                                                                         *)
(* Handlers are routed as main() registers them: main_router (commands,    *)
(* no state filter) before expense_callback_router (callback queries       *)
(* filtered on callback data only, free text filtered on the FSM state).   *)
(* The FSM storage is the dispatcher's default in-memory storage, whose    *)
(* coroutines never suspend, so a handler yields to other updates only at  *)
(* its Telegram calls (callback.answer, message.answer, edit_text).        *)
(* Telegram calls themselves are taken to succeed.  sqlite can fail the    *)
(* INSERT of add_expense (locked file, timeout, I/O error): the exception  *)
(* leaves add_expense and the handler at that line, and the dispatcher     *)
(* goes on with the next update.                                           *)
(***************************************************************************)
EXTENDS Integers, Sequences, FiniteSets, TLC

VARIABLES
    fsm_state,    \* FSMContext state of each user (states.py ExpenseStates or None)
    fsm_data,     \* FSMContext data dictionary of each user
    expenses,     \* rows of table expenses, in id order
    categories,   \* rows of table categories
    users,        \* rows of table users, by user_id
    returned,     \* the value a Database query returns in this step, else None
    now,          \* datetime.datetime.now(), in days
    tasks,        \* confirm_expense_handler coroutines suspended in edit_text
    last          \* the update handled last: user, handler, what it answered

vars == <<fsm_state, fsm_data, expenses, categories, users, returned, now, tasks, last>>

----------------------------------------------------------------------------
(* Bounds and input sets *)

\* Spec: the ledger holds at most this many expense rows
MaxExpenses == 2

\* SpecLedger: the ledger holds at most this many expense rows
MaxLedgerRows == 2

\* SpecConc: the ledger holds at most this many expense rows
MaxConcExpenses == 2

\* SpecConc: at most this many confirm_expense_handler coroutines are suspended
MaxTasks == 2

\* SpecDb: the clock advances at most this many days
MaxTime == 1

\* Telegram user ids (callback.from_user.id, message.from_user.id)
Users == {1, 2}

\* Spec, SpecConc: the users whose updates are delivered.  The FSM context
\* is keyed by user, so one sender exercises every handler path; the
\* ledger is shared and is called for both users in SpecLedger.
Senders == {1}

\* ids carried by "select_category:<id>" callback data; 99 is no category row
CategoryInputs == {1, 2, 99}

\* message.text of a message received in waiting_for_amount
AmountTexts == {"12.50", "7", "0", "-5", "nan", "abc"}

\* message.text of a message received in waiting_for_description
DescriptionTexts == {"-", "lunch"}

----------------------------------------------------------------------------
(* Python values *)

\* None, and a value that is not None
None == <<>>
Some(x) == <<x>>

\* a float: NaN, or a number kept in hundredths
Float(v) == [nan |-> FALSE, v |-> v]
NaN == [nan |-> TRUE, v |-> 0]

\* float(text): the parsed value, or ValueError
ParseFloat(text) ==
    CASE text = "12.50" -> [err |-> FALSE, val |-> Float(1250)]
      [] text = "7"     -> [err |-> FALSE, val |-> Float(700)]
      [] text = "0"     -> [err |-> FALSE, val |-> Float(0)]
      [] text = "-5"    -> [err |-> FALSE, val |-> Float(-500)]
      [] text = "nan"   -> [err |-> FALSE, val |-> NaN]
      [] OTHER          -> [err |-> TRUE,  val |-> NaN]

\* amount > 0 on floats
Positive(a) == ~a.nan /\ a.v > 0

\* mutant of LeqZero: the test written amount < 0
LtZero(a) == ~a.nan /\ a.v < 0

\* amount <= 0 on floats: every comparison with NaN is False
LeqZero(a) == ~a.nan /\ a.v <= 0

----------------------------------------------------------------------------
(* states.py and the FSM context *)

NoState == "None"
waiting_for_category == "waiting_for_category"
waiting_for_amount == "waiting_for_amount"
waiting_for_description == "waiting_for_description"
confirming_expense == "confirming_expense"

ExpenseStates ==
    {waiting_for_category, waiting_for_amount, waiting_for_description,
     confirming_expense}

EmptyData == <<>>

\* user_data.get(key)
Get(d, key) == IF key \in DOMAIN d THEN d[key] ELSE None

\* state.update_data(key=value): the dictionary with key set, the rest kept
UpdateData(d, key, value) ==
    [k \in (DOMAIN d) \cup {key} |-> IF k = key THEN value ELSE d[k]]

----------------------------------------------------------------------------
(* database.py *)

\* default_categories, with the ids AUTOINCREMENT gives them on a new file
DefaultCategories ==
    { [id |-> 1, name |-> "Food",          icon |-> "burger"],
      [id |-> 2, name |-> "Transport",     icon |-> "bus"],
      [id |-> 3, name |-> "Shopping",      icon |-> "bags"],
      [id |-> 4, name |-> "Entertainment", icon |-> "game"],
      [id |-> 5, name |-> "Bills",         icon |-> "page"],
      [id |-> 6, name |-> "Health",        icon |-> "pill"],
      [id |-> 7, name |-> "Other",         icon |-> "box"] }

\* default_categories of _create_tables, in the order executemany binds them
default_categories ==
    << [name |-> "Food",          icon |-> "burger"],
       [name |-> "Transport",     icon |-> "bus"],
       [name |-> "Shopping",      icon |-> "bags"],
       [name |-> "Entertainment", icon |-> "game"],
       [name |-> "Bills",         icon |-> "page"],
       [name |-> "Health",        icon |-> "pill"],
       [name |-> "Other",         icon |-> "box"] >>

\* the id AUTOINCREMENT gives the next row of `cats`
NextCategoryId(cats) ==
    IF cats = {} THEN 1
    ELSE 1 + CHOOSE m \in {c.id : c \in cats} : \A c \in cats : c.id <= m

\* mutant of insert_or_ignore: INSERT OR REPLACE, a row whose name is taken
\* is deleted and inserted again under a new id
insert_or_replace(cats, d) ==
    {c \in cats : c.name # d.name}
        \cup {[id |-> NextCategoryId(cats), name |-> d.name, icon |-> d.icon]}

\* INSERT OR IGNORE INTO categories (name, icon): name is UNIQUE, so the
\* statement is skipped when a row has the name
insert_or_ignore(cats, d) ==
    IF \E c \in cats : c.name = d.name
    THEN cats
    ELSE cats \cup {[id |-> NextCategoryId(cats), name |-> d.name, icon |-> d.icon]}

\* cursor.executemany(INSERT OR IGNORE ..., ds)
RECURSIVE executemany(_, _)
executemany(cats, ds) ==
    IF ds = <<>> THEN cats
    ELSE executemany(insert_or_ignore(cats, Head(ds)), Tail(ds))

\* mutant of create_table_if_not_exists: the table is dropped and created
drop_and_create_table(rows) == <<>>

\* CREATE TABLE IF NOT EXISTS on a file that has the table: nothing is done
create_table_if_not_exists(rows) == rows

\* _create_tables on table categories: the rows there are stay, then the
\* default categories are inserted
create_tables(cats) == executemany(cats, default_categories)

\* Database.get_category: the row as Some(row), or None
get_category(cats, category_id) ==
    IF category_id # None /\ \E c \in cats : c.id = category_id[1]
    THEN Some(CHOOSE c \in cats : c.id = category_id[1])
    ELSE None

\* the row add_expense inserts
ExpenseRow(id, user_id, amount, category_id, description, date) ==
    [id |-> id, user_id |-> user_id, amount |-> amount,
     category_id |-> category_id, description |-> description, date |-> date]

\* mutant of add_expense: the columns amount and category_id accept NULL
add_expense_nullable(rows, user_id, amount, category_id, description, date, fault) ==
    IF fault
    THEN [exc |-> "OperationalError", rows |-> rows, expense_id |-> 0]
    ELSE [exc |-> "",
          rows |-> Append(rows, ExpenseRow(Len(rows) + 1, user_id,
                                           IF amount = None THEN NaN ELSE amount[1],
                                           IF category_id = None THEN 0 ELSE category_id[1],
                                           description, date)),
          expense_id |-> Len(rows) + 1]

\* mutant of add_expense: a failed statement is swallowed and 0 returned
add_expense_returns_zero(rows, user_id, amount, category_id, description, date, fault) ==
    IF fault \/ amount = None \/ category_id = None
    THEN [exc |-> "", rows |-> rows, expense_id |-> 0]
    ELSE IF amount[1].nan
    THEN [exc |-> "", rows |-> rows, expense_id |-> 0]
    ELSE [exc |-> "",
          rows |-> Append(rows, ExpenseRow(Len(rows) + 1, user_id, amount[1],
                                           category_id[1], description, date)),
          expense_id |-> Len(rows) + 1]

\* Database.add_expense on table `rows`.  amount, category_id and description
\* are None or Some(value); fault says that sqlite fails the statement
\* (locked file, timeout, I/O error).  The INSERT binds None and NaN as NULL,
\* and the columns amount and category_id are NOT NULL; foreign keys are not
\* enforced (no PRAGMA foreign_keys).  Gives the exception raised ("" when
\* none), the table afterwards and the returned cursor.lastrowid.
add_expense(rows, user_id, amount, category_id, description, date, fault) ==
    IF fault
    THEN [exc |-> "OperationalError", rows |-> rows, expense_id |-> 0]
    ELSE IF amount = None \/ category_id = None
    THEN [exc |-> "IntegrityError", rows |-> rows, expense_id |-> 0]
    ELSE IF amount[1].nan
    THEN [exc |-> "IntegrityError", rows |-> rows, expense_id |-> 0]
    ELSE [exc |-> "",
          rows |-> Append(rows, ExpenseRow(Len(rows) + 1, user_id, amount[1],
                                           category_id[1], description, date)),
          expense_id |-> Len(rows) + 1]

\* table users of a new file
NoUsers == <<>>

\* a row of table users; created_at is the column's DEFAULT CURRENT_TIMESTAMP
UserRow(user_id, username, first_name, last_name, created_at) ==
    [user_id |-> user_id, username |-> username, first_name |-> first_name,
     last_name |-> last_name, created_at |-> created_at]

\* COALESCE(value, stored)
COALESCE(value, stored) == IF value # None THEN value ELSE stored

\* mutant of add_user: INSERT OR REPLACE, the stored row is replaced whole
add_user_replace(tbl, user_id, username, first_name, last_name, date) ==
    [id \in (DOMAIN tbl) \cup {user_id} |->
        IF id = user_id
        THEN UserRow(user_id, username, first_name, last_name, date)
        ELSE tbl[id]]

\* Database.add_user on table `tbl`: INSERT, and on a conflict on user_id
\* the three name columns are set to COALESCE(argument, stored value).
\* username, first_name and last_name are None or Some(text).
add_user(tbl, user_id, username, first_name, last_name, date) ==
    IF user_id \in DOMAIN tbl
    THEN [tbl EXCEPT ![user_id] =
            [@ EXCEPT !.username = COALESCE(username, @),
                      !.first_name = COALESCE(first_name, @),
                      !.last_name = COALESCE(last_name, @)]]
    ELSE [id \in (DOMAIN tbl) \cup {user_id} |->
            IF id = user_id
            THEN UserRow(user_id, username, first_name, last_name, date)
            ELSE tbl[id]]

\* Database.get_user: the row as Some(row), or None
get_user(tbl, user_id) ==
    IF user_id \in DOMAIN tbl THEN Some(tbl[user_id]) ELSE None

\* the rows of expenses e JOIN categories c ON e.category_id = c.id
\* WHERE e.user_id = user_id: a row whose category_id is no categories.id
\* has no partner in the join
JoinedRows(rows, cats, user_id) ==
    {rows[i] : i \in {j \in 1..Len(rows) :
                        /\ rows[j].user_id = user_id
                        /\ \E c \in cats : c.id = rows[j].category_id}}

\* a row as get_user_expenses returns it
RecentRow(e, cats) ==
    LET c == CHOOSE c \in cats : c.id = e.category_id IN
    [id |-> e.id, amount |-> e.amount, date |-> e.date,
     description |-> e.description, category_name |-> c.name,
     category_icon |-> c.icon]

\* ORDER BY e.date DESC.  sqlite answers the query by a backward scan of
\* idx_expenses_user_date, whose entries are (user_id, date, rowid), so rows
\* of one date come out with the higher id first.
RECURSIVE OrderByDateDesc(_)
OrderByDateDesc(S) ==
    IF S = {} THEN <<>>
    ELSE LET e == CHOOSE e \in S : \A q \in S :
                      q.date < e.date \/ (q.date = e.date /\ q.id <= e.id)
         IN <<e>> \o OrderByDateDesc(S \ {e})

\* LIMIT n
Limit(s, n) == SubSeq(s, 1, IF n < Len(s) THEN n ELSE Len(s))

\* Database.get_user_expenses: the list of rows returned
get_user_expenses(rows, cats, user_id, limit) ==
    LET ordered == Limit(OrderByDateDesc(JoinedRows(rows, cats, user_id)), limit)
    IN [i \in 1..Len(ordered) |-> RecentRow(ordered[i], cats)]

\* SUM(amount) over a set of rows, in hundredths; 0 stands for the NULL of
\* an empty set where the code writes `or 0.0`
RECURSIVE SumAmount(_)
SumAmount(S) ==
    IF S = {} THEN 0
    ELSE LET e == CHOOSE e \in S : TRUE IN e.amount.v + SumAmount(S \ {e})

\* WHERE user_id = ? AND date BETWEEN start_date AND end_date, with
\* end_date = now and start_date = now - timedelta(days)
InWindow(rows, user_id, days, end_date) ==
    {rows[i] : i \in {j \in 1..Len(rows) :
                        /\ rows[j].user_id = user_id
                        /\ end_date - days <= rows[j].date
                        /\ rows[j].date <= end_date}}

\* a row of the GROUP BY c.id query
CategoryTotal(c, S) ==
    [category_name |-> c.name, category_icon |-> c.icon,
     category_total |-> Float(SumAmount({e \in S : e.category_id = c.id}))]

\* the rows of the GROUP BY c.id query: one for each category joined to a
\* row of the window
CategoryTotals(rows, cats, user_id, days, end_date) ==
    LET S == InWindow(rows, user_id, days, end_date) IN
    {CategoryTotal(c, S) : c \in {c \in cats : \E e \in S : e.category_id = c.id}}

\* the sequences that hold each element of S once
Orderings(S) ==
    {s \in [1..Cardinality(S) -> S] : \A i, j \in DOMAIN s : i # j => s[i] # s[j]}

\* mutant of OrderedByTotalDesc: ORDER BY category_total, smallest first
OrderedByTotalAsc(s) ==
    \A i, j \in DOMAIN s : i < j => s[i].category_total.v <= s[j].category_total.v

\* ORDER BY category_total DESC; rows of equal total may come in any order
OrderedByTotalDesc(s) ==
    \A i, j \in DOMAIN s : i < j => s[i].category_total.v >= s[j].category_total.v

\* Database.get_user_expense_stats: the dictionaries it can return
get_user_expense_stats(rows, cats, user_id, days, end_date) ==
    {[total_spending |-> Float(SumAmount(InWindow(rows, user_id, days, end_date))),
      category_spending |-> s,
      period_days |-> days] :
        s \in {s \in Orderings(CategoryTotals(rows, cats, user_id, days, end_date)) :
                 OrderedByTotalDesc(s)}}

----------------------------------------------------------------------------
(* main.py: the handlers *)

Answer(u, handler, result) == [user |-> u, handler |-> handler, result |-> result]

Init ==
    /\ fsm_state = [u \in Users |-> NoState]
    /\ fsm_data = [u \in Users |-> EmptyData]
    /\ expenses = <<>>
    /\ categories = DefaultCategories
    /\ users = NoUsers
    /\ returned = None
    /\ now = 0
    /\ tasks = {}
    /\ last = Answer(0, "", "")

\* /add: only the state is set; the data dictionary is left as it is
cmd_add_expense(u) ==
    /\ fsm_state' = [fsm_state EXCEPT ![u] = waiting_for_category]
    /\ last' = Answer(u, "cmd_add_expense", "choose_category")
    /\ UNCHANGED <<fsm_data, expenses, categories, users, returned, now, tasks>>

\* callback "select_category:<id>", in any state
process_category_selection(u, category_id) ==
    /\ fsm_data' = [fsm_data EXCEPT
                      ![u] = UpdateData(@, "selected_category_id", Some(category_id))]
    /\ fsm_state' = [fsm_state EXCEPT ![u] = waiting_for_amount]
    /\ last' = Answer(u, "process_category_selection", "enter_amount")
    /\ UNCHANGED <<expenses, categories, users, returned, now, tasks>>

\* callback "cancel_add_expense" (category keyboard), in any state
cancel_add_expense_operation(u) ==
    /\ last' = Answer(u, "cancel_add_expense_operation", "cancelled")
    /\ UNCHANGED <<fsm_state, fsm_data, expenses, categories, users, returned, now, tasks>>

\* a message in waiting_for_amount
process_amount_input(u, amount_text) ==
    LET parsed == ParseFloat(amount_text) IN
    /\ fsm_state[u] = waiting_for_amount
    /\ IF parsed.err
       THEN /\ last' = Answer(u, "process_amount_input", "invalid_amount")
            /\ UNCHANGED <<fsm_state, fsm_data>>
       ELSE IF LeqZero(parsed.val)
       THEN /\ last' = Answer(u, "process_amount_input", "not_positive")
            /\ UNCHANGED <<fsm_state, fsm_data>>
       ELSE /\ fsm_data' = [fsm_data EXCEPT
                              ![u] = UpdateData(@, "amount", Some(parsed.val))]
            /\ fsm_state' = [fsm_state EXCEPT ![u] = waiting_for_description]
            /\ last' = Answer(u, "process_amount_input", "enter_description")
    /\ UNCHANGED <<expenses, categories, users, returned, now, tasks>>

\* mutant of process_description_input: the skip marker '-' is stored as text
process_description_input_noskip(u, description_text) ==
    LET user_data == UpdateData(fsm_data[u], "description", Some(description_text))
        category == get_category(categories, Get(user_data, "selected_category_id"))
    IN
    /\ fsm_state[u] = waiting_for_description
    /\ IF category = None
       THEN /\ fsm_state' = [fsm_state EXCEPT ![u] = NoState]
            /\ fsm_data' = [fsm_data EXCEPT ![u] = EmptyData]
            /\ last' = Answer(u, "process_description_input", "category_not_found")
       ELSE /\ fsm_data' = [fsm_data EXCEPT ![u] = user_data]
            /\ fsm_state' = [fsm_state EXCEPT ![u] = confirming_expense]
            /\ last' = Answer(u, "process_description_input", "confirm_prompt")
    /\ UNCHANGED <<expenses, categories, users, returned, now, tasks>>

\* mutant of process_description_input: a failed category lookup resets the
\* state with set_state(None) and keeps the data
process_description_input_keeps_data(u, description_text) ==
    LET description == IF description_text = "-" THEN None ELSE Some(description_text)
        user_data == UpdateData(fsm_data[u], "description", description)
        category == get_category(categories, Get(user_data, "selected_category_id"))
    IN
    /\ fsm_state[u] = waiting_for_description
    /\ fsm_data' = [fsm_data EXCEPT ![u] = user_data]
    /\ IF category = None
       THEN /\ fsm_state' = [fsm_state EXCEPT ![u] = NoState]
            /\ last' = Answer(u, "process_description_input", "category_not_found")
       ELSE /\ fsm_state' = [fsm_state EXCEPT ![u] = confirming_expense]
            /\ last' = Answer(u, "process_description_input", "confirm_prompt")
    /\ UNCHANGED <<expenses, categories, users, returned, now, tasks>>

\* a message in waiting_for_description
process_description_input(u, description_text) ==
    LET description == IF description_text = "-" THEN None ELSE Some(description_text)
        user_data == UpdateData(fsm_data[u], "description", description)
        category_id == Get(user_data, "selected_category_id")
        amount == Get(user_data, "amount")
        category == get_category(categories, category_id)
    IN
    /\ fsm_state[u] = waiting_for_description
    /\ IF category = None
       THEN \* state.clear()
            /\ fsm_state' = [fsm_state EXCEPT ![u] = NoState]
            /\ fsm_data' = [fsm_data EXCEPT ![u] = EmptyData]
            /\ last' = Answer(u, "process_description_input", "category_not_found")
       ELSE /\ fsm_data' = [fsm_data EXCEPT ![u] = user_data]
            /\ fsm_state' = [fsm_state EXCEPT ![u] = confirming_expense]
            /\ last' = Answer(u, "process_description_input",
                              \* f"{amount:.2f}" of None raises TypeError
                              IF amount = None THEN "TypeError" ELSE "confirm_prompt")
    /\ UNCHANGED <<expenses, categories, users, returned, now, tasks>>

\* callback "confirm_expense", in any state, run without another update in
\* between.  An exception of add_expense leaves the handler before edit_text
\* and state.clear() are reached.
confirm_expense_handler(u, fault) ==
    LET user_data == fsm_data[u]
        r == add_expense(expenses, u, Get(user_data, "amount"),
                         Get(user_data, "selected_category_id"),
                         Get(user_data, "description"), now, fault)
    IN
    /\ r.exc # "" \/ Len(expenses) < MaxExpenses
    /\ IF r.exc # ""
       THEN /\ last' = Answer(u, "confirm_expense_handler", r.exc)
            /\ UNCHANGED <<fsm_state, fsm_data, expenses>>
       ELSE /\ expenses' = r.rows
            /\ fsm_state' = [fsm_state EXCEPT ![u] = NoState]
            /\ fsm_data' = [fsm_data EXCEPT ![u] = EmptyData]
            /\ last' = Answer(u, "confirm_expense_handler",
                              IF r.expense_id # 0 THEN "saved" ELSE "failed_to_save")
    /\ UNCHANGED <<categories, users, returned, now, tasks>>

\* mutant of cancel_confirm_expense_handler: the FSM storage is emptied, for
\* every user
cancel_confirm_clears_storage(u) ==
    /\ fsm_state' = [v \in Users |-> NoState]
    /\ fsm_data' = [v \in Users |-> EmptyData]
    /\ last' = Answer(u, "cancel_confirm_expense_handler", "cancelled")
    /\ UNCHANGED <<expenses, categories, users, returned, now, tasks>>

\* callback "cancel_confirm_expense" (confirmation keyboard), in any state
cancel_confirm_expense_handler(u) ==
    /\ fsm_state' = [fsm_state EXCEPT ![u] = NoState]
    /\ fsm_data' = [fsm_data EXCEPT ![u] = EmptyData]
    /\ last' = Answer(u, "cancel_confirm_expense_handler", "cancelled")
    /\ UNCHANGED <<expenses, categories, users, returned, now, tasks>>

Next ==
    \/ \E u \in Senders : cmd_add_expense(u)
    \/ \E u \in Senders, c \in CategoryInputs : process_category_selection(u, c)
    \/ \E u \in Senders : cancel_add_expense_operation(u)
    \/ \E u \in Senders, t \in AmountTexts : process_amount_input(u, t)
    \/ \E u \in Senders, t \in DescriptionTexts : process_description_input(u, t)
    \/ \E u \in Senders, fault \in BOOLEAN : confirm_expense_handler(u, fault)
    \/ \E u \in Senders : cancel_confirm_expense_handler(u)

Spec == Init /\ [][Next]_vars

----------------------------------------------------------------------------
(* Duplicate delivery: confirm_expense_handler at its suspension points.   *)
(* The handler reads the data and inserts the row without suspending, is   *)
(* suspended in callback.message.edit_text, and clears the FSM context     *)
(* when resumed.  The dispatcher runs each update as its own task and has  *)
(* no per-user event isolation, so a second confirm_expense callback of    *)
(* the same user can run while the first is suspended.  SpecConc explores  *)
(* that case: while a confirm coroutine of a user is suspended, the only   *)
(* further updates of that user are confirm_expense callbacks.             *)

Suspended(u) == \E t \in tasks : t.user = u

\* lines 189-200: callback.answer(), state.get_data(), db.add_expense(...)
confirm_expense_begin(u, fault) ==
    LET user_data == fsm_data[u]
        r == add_expense(expenses, u, Get(user_data, "amount"),
                         Get(user_data, "selected_category_id"),
                         Get(user_data, "description"), now, fault)
    IN
    /\ r.exc # "" \/ (Len(expenses) < MaxConcExpenses /\ Cardinality(tasks) < MaxTasks)
    /\ IF r.exc # ""
       THEN /\ last' = Answer(u, "confirm_expense_handler", r.exc)
            /\ UNCHANGED <<expenses, tasks>>
       ELSE /\ expenses' = r.rows
            /\ tasks' = tasks \cup {[user |-> u, expense_id |-> r.expense_id]}
            /\ last' = Answer(u, "confirm_expense_handler", "edit_text")
    /\ UNCHANGED <<fsm_state, fsm_data, categories, users, returned, now>>

\* lines 202-211: edit_text returns, state.clear()
confirm_expense_end(t) ==
    /\ t \in tasks
    /\ tasks' = tasks \ {t}
    /\ fsm_state' = [fsm_state EXCEPT ![t.user] = NoState]
    /\ fsm_data' = [fsm_data EXCEPT ![t.user] = EmptyData]
    /\ last' = Answer(t.user, "confirm_expense_handler",
                      IF t.expense_id # 0 THEN "saved" ELSE "failed_to_save")
    /\ UNCHANGED <<expenses, categories, users, returned, now>>

NextConc ==
    \/ \E u \in Senders : ~Suspended(u) /\ cmd_add_expense(u)
    \/ \E u \in Senders, c \in CategoryInputs :
          ~Suspended(u) /\ process_category_selection(u, c)
    \/ \E u \in Senders : ~Suspended(u) /\ cancel_add_expense_operation(u)
    \/ \E u \in Senders, t \in AmountTexts :
          ~Suspended(u) /\ process_amount_input(u, t)
    \/ \E u \in Senders, t \in DescriptionTexts :
          ~Suspended(u) /\ process_description_input(u, t)
    \/ \E u \in Senders : ~Suspended(u) /\ cancel_confirm_expense_handler(u)
    \/ \E u \in Senders, fault \in BOOLEAN : confirm_expense_begin(u, fault)
    \/ \E t \in tasks : confirm_expense_end(t)

SpecConc == Init /\ [][NextConc]_vars

----------------------------------------------------------------------------
(* The ledger called directly: Database.add_expense with any arguments *)

\* amounts passed to add_expense by a direct caller
DirectAmounts == {Float(1250), Float(0), Float(-500)}

\* descriptions passed to add_expense by a direct caller
DirectDescriptions == {None, Some("lunch")}

\* db.add_expense(user_id, amount, category_id, description), date defaulted
call_add_expense(user_id, amount, category_id, description) ==
    LET r == add_expense(expenses, user_id, Some(amount), Some(category_id),
                         description, now, FALSE)
    IN
    /\ Len(expenses) < MaxLedgerRows
    /\ expenses' = r.rows
    /\ last' = Answer(user_id, "add_expense", IF r.exc # "" THEN r.exc ELSE "returned")
    /\ returned' = None
    /\ UNCHANGED <<fsm_state, fsm_data, categories, users, now, tasks>>

NextLedger ==
    \E u \in Users, a \in DirectAmounts, c \in CategoryInputs, d \in DirectDescriptions :
        call_add_expense(u, a, c, d)

SpecLedger == Init /\ [][NextLedger]_vars

----------------------------------------------------------------------------
(* Table users: /start, and Database.add_user called directly *)

\* message.from_user.username, which Telegram leaves out for a user without one
Usernames == {None, Some("al"), Some("bob")}

\* message.from_user.first_name, which Telegram always sends
FirstNames == {Some("Al"), Some("Bob")}

\* message.from_user.last_name, which Telegram leaves out for a user without one
LastNames == {None, Some("Lee")}

\* /start: add_user is called only when get_user finds no row
cmd_start(u, username, first_name, last_name) ==
    LET user == get_user(users, u) IN
    /\ IF user # None
       THEN /\ last' = Answer(u, "cmd_start", "welcome_back")
            /\ UNCHANGED users
       ELSE /\ users' = add_user(users, u, username, first_name, last_name, now)
            /\ last' = Answer(u, "cmd_start", "welcome")
    /\ UNCHANGED <<fsm_state, fsm_data, expenses, categories, returned, now, tasks>>

\* db.add_user(user_id, username, first_name, last_name); any of the three
\* may be None.  The call returns nothing: `last` says which branch of the
\* statement ran and whether every name was given.
call_add_user(user_id, username, first_name, last_name) ==
    /\ users' = add_user(users, user_id, username, first_name, last_name, now)
    /\ last' = Answer(user_id, "add_user",
                      IF user_id \notin DOMAIN users THEN "inserted"
                      ELSE IF None \in {username, first_name, last_name}
                      THEN "updated_some"
                      ELSE "updated_all")
    /\ UNCHANGED <<fsm_state, fsm_data, expenses, categories, returned, now, tasks>>

NextUsers ==
    \/ \E u \in Users, un \in Usernames, fn \in FirstNames, ln \in LastNames :
          cmd_start(u, un, fn, ln)
    \/ \E u \in Users, un \in Usernames, fn \in FirstNames \cup {None},
          ln \in LastNames :
          call_add_user(u, un, fn, ln)

SpecUsers == Init /\ [][NextUsers]_vars

----------------------------------------------------------------------------
(* The Database object over time: constructed again on its file, rows      *)
(* added on different days, and the two queries called with any arguments  *)

\* amounts of the rows added in SpecDb
QueryAmounts == {Float(700), Float(1250)}

\* limit of get_user_expenses; 5 is the default
Limits == {1, 2, 5}

\* days of get_user_expense_stats; 30 is the default
WindowDays == {0, 1, 30}

\* a day passes
Tick ==
    /\ now < MaxTime
    /\ now' = now + 1
    /\ returned' = None
    /\ UNCHANGED <<fsm_state, fsm_data, expenses, categories, users, tasks, last>>

\* Database(db_file) on the file of an earlier Database: _create_tables
Database_init ==
    /\ users' = create_table_if_not_exists(users)
    /\ categories' = create_tables(categories)
    /\ expenses' = create_table_if_not_exists(expenses)
    /\ last' = Answer(0, "Database", "created_tables")
    /\ returned' = None
    /\ UNCHANGED <<fsm_state, fsm_data, now, tasks>>

\* db.get_user_expenses(user_id, limit)
call_get_user_expenses(user_id, limit) ==
    /\ returned' = Some(get_user_expenses(expenses, categories, user_id, limit))
    /\ last' = Answer(user_id, "get_user_expenses", "returned")
    /\ UNCHANGED <<fsm_state, fsm_data, expenses, categories, users, now, tasks>>

\* db.get_user_expense_stats(user_id, days)
call_get_user_expense_stats(user_id, days) ==
    /\ \E stats \in get_user_expense_stats(expenses, categories, user_id, days, now) :
          returned' = Some(stats)
    /\ last' = Answer(user_id, "get_user_expense_stats", "returned")
    /\ UNCHANGED <<fsm_state, fsm_data, expenses, categories, users, now, tasks>>

NextDb ==
    \/ Tick
    \/ Database_init
    \/ \E u \in Users, a \in QueryAmounts, c \in CategoryInputs :
          call_add_expense(u, a, c, None)
    \/ \E u \in Users, limit \in Limits : call_get_user_expenses(u, limit)
    \/ \E u \in Users, days \in WindowDays : call_get_user_expense_stats(u, days)

SpecDb == Init /\ [][NextDb]_vars

----------------------------------------------------------------------------
(* The commands /help, /recent and /stats during the add-expense flow.     *)
(* Their handlers are on main_router, which the dispatcher asks before     *)
(* expense_callback_router, so a command is handled as a command also in   *)
(* the states where a free-text handler waits for a message.               *)

\* limit of get_user_expenses when the caller gives none
DefaultLimit == 5

\* days of get_user_expense_stats when the caller gives none
DefaultDays == 30

\* mutant of cmd_help: expense_callback_router is asked first, so the text
\* "/help" is taken by the free-text handler of the user's state
cmd_help_as_text(u) ==
    IF fsm_state[u] = waiting_for_amount
    THEN process_amount_input(u, "/help")
    ELSE IF fsm_state[u] = waiting_for_description
    THEN process_description_input(u, "/help")
    ELSE /\ last' = Answer(u, "cmd_help", "help_text")
         /\ UNCHANGED <<fsm_state, fsm_data, expenses, categories, users,
                        returned, now, tasks>>

\* /help
cmd_help(u) ==
    /\ last' = Answer(u, "cmd_help", "help_text")
    /\ UNCHANGED <<fsm_state, fsm_data, expenses, categories, users, returned,
                   now, tasks>>

\* /recent
cmd_recent_expenses(u) ==
    LET recent_expenses == get_user_expenses(expenses, categories, u, DefaultLimit)
    IN
    /\ last' = Answer(u, "cmd_recent_expenses",
                      IF recent_expenses = <<>> THEN "no_expenses"
                      ELSE "recent_expenses")
    /\ UNCHANGED <<fsm_state, fsm_data, expenses, categories, users, returned,
                   now, tasks>>

\* /stats
cmd_show_statistics(u) ==
    /\ \E stats_data \in get_user_expense_stats(expenses, categories, u,
                                                 DefaultDays, now) :
          last' = Answer(u, "cmd_show_statistics",
                         IF stats_data.category_spending = <<>> THEN "no_expenses"
                         ELSE "statistics")
    /\ UNCHANGED <<fsm_state, fsm_data, expenses, categories, users, returned,
                   now, tasks>>

\* SpecCmd: the category ids, amount texts and description texts of the flow
CmdCategoryInputs == {1, 99}
CmdAmountTexts == {"7", "abc"}
CmdDescriptionTexts == {"lunch"}

NextCmd ==
    \/ \E u \in Senders : cmd_add_expense(u)
    \/ \E u \in Senders, c \in CmdCategoryInputs : process_category_selection(u, c)
    \/ \E u \in Senders, t \in CmdAmountTexts : process_amount_input(u, t)
    \/ \E u \in Senders, t \in CmdDescriptionTexts : process_description_input(u, t)
    \/ \E u \in Senders : confirm_expense_handler(u, FALSE)
    \/ \E u \in Senders : cancel_confirm_expense_handler(u)
    \/ \E u \in Senders : cmd_help(u)
    \/ \E u \in Senders : cmd_recent_expenses(u)
    \/ \E u \in Senders : cmd_show_statistics(u)

SpecCmd == Init /\ [][NextCmd]_vars

----------------------------------------------------------------------------
(* Two users at once: the updates of both users are delivered in any       *)
(* order, and a confirm_expense_handler of one user can be suspended in    *)
(* edit_text while the other user's updates are handled.  The FSM context  *)
(* of an update is the one of its sender (private chats: the chat is the   *)
(* user).                                                                  *)

\* SpecIso: the category ids, amount texts and description texts of the flow
IsoCategoryInputs == {1, 2}
IsoAmountTexts == {"7", "abc"}
IsoDescriptionTexts == {"-"}

NextIso ==
    \/ \E u \in Users : ~Suspended(u) /\ cmd_add_expense(u)
    \/ \E u \in Users, c \in IsoCategoryInputs :
          ~Suspended(u) /\ process_category_selection(u, c)
    \/ \E u \in Users, t \in IsoAmountTexts :
          ~Suspended(u) /\ process_amount_input(u, t)
    \/ \E u \in Users, t \in IsoDescriptionTexts :
          ~Suspended(u) /\ process_description_input(u, t)
    \/ \E u \in Users : ~Suspended(u) /\ cancel_confirm_expense_handler(u)
    \/ \E u \in Users : ~Suspended(u) /\ confirm_expense_begin(u, FALSE)
    \/ \E t \in tasks : confirm_expense_end(t)

SpecIso == Init /\ [][NextIso]_vars

----------------------------------------------------------------------------
(* Claims *)

\* C1: a confirm_expense callback handled while the user's state is None
\* creates no expense row: the table is the same before and after.
C1_StaleConfirmCreatesNoRow ==
    [][\A u \in Users, fault \in BOOLEAN :
         (fsm_state[u] = NoState /\ confirm_expense_handler(u, fault))
            => expenses' = expenses]_vars

\* C1 witness: a user's flow was committed, the same user pressed confirm
\* again in state None, and the insert was refused.
C1_Witness ==
    \E u \in Users :
        /\ fsm_state[u] = NoState
        /\ last = Answer(u, "confirm_expense_handler", "IntegrityError")
        /\ Len(expenses) = 1
        /\ expenses[1].user_id = u

\* C2 (as claimed): a row is added only by a confirm_expense callback handled
\* in confirming_expense; no other step adds a row.
C2_RowOnlyAtConfirmation ==
    [][Len(expenses') > Len(expenses)
         => \E u \in Users :
               fsm_state[u] = confirming_expense /\ confirm_expense_handler(u, FALSE)]_vars

\* C3 (as claimed): confirm_expense callbacks of one user that run
\* concurrently in confirming_expense create one expense row between them,
\* never two: the coroutines suspended before state.clear() hold one row id.
C3_OneRowPerFlow ==
    \A t1, t2 \in tasks :
        (t1.user = t2.user /\ fsm_state[t1.user] = confirming_expense)
            => t1.expense_id = t2.expense_id

\* C4 (as claimed): either cancel callback, handled in any state, leaves the
\* user's state None and the data dictionary empty.
C4_CancelClearsState ==
    [][\A u \in Users :
         (cancel_add_expense_operation(u) \/ cancel_confirm_expense_handler(u))
            => (fsm_state'[u] = NoState /\ fsm_data'[u] = EmptyData)]_vars

\* C5 (as claimed): /add handled while a flow is in progress leaves the state
\* waiting_for_category and none of the earlier flow's pending fields.
C5_AddReplacesState ==
    [][\A u \in Users :
         (fsm_state[u] # NoState /\ cmd_add_expense(u))
            => (fsm_state'[u] = waiting_for_category /\ fsm_data'[u] = EmptyData)]_vars

\* C6 (as claimed): a select_category callback handled outside
\* waiting_for_category, and a confirm_expense callback handled outside
\* confirming_expense, leave the user's state and data unchanged.
C6_StaleTokenIgnored ==
    [][\A u \in Users :
         (\/ /\ fsm_state[u] # waiting_for_category
             /\ \E c \in CategoryInputs : process_category_selection(u, c)
          \/ /\ fsm_state[u] # confirming_expense
             /\ \E fault \in BOOLEAN : confirm_expense_handler(u, fault))
            => (fsm_state'[u] = fsm_state[u] /\ fsm_data'[u] = fsm_data[u])]_vars

\* C7: every row of table expenses has amount > 0.
C7_PositiveAmounts ==
    \A i \in 1..Len(expenses) : Positive(expenses[i].amount)

\* C7 witness: a flow has been confirmed and its row is in the table.
C7_Witness ==
    /\ Len(expenses) > 0
    /\ last.handler = "confirm_expense_handler"
    /\ last.result = "saved"

\* C8 (as claimed): add_expense called with amount <= 0 raises and leaves the
\* table unchanged.
C8_NonPositiveRejected ==
    [][\A u \in Users, a \in DirectAmounts, c \in CategoryInputs,
          d \in DirectDescriptions :
         (LeqZero(a) /\ call_add_expense(u, a, c, d))
            => (expenses' = expenses /\ last'.result # "returned")]_vars

\* the row that add_expense makes of a data dictionary holding an amount
\* and a category
PendingRow(u, d) ==
    ExpenseRow(Len(expenses) + 1, u, d["amount"][1], d["selected_category_id"][1],
               Get(d, "description"), now)

\* C9: a confirm_expense callback in confirming_expense whose insert fails
\* leaves the state confirming_expense, the pending data and the table as
\* they were; a confirm_expense callback that follows it and whose insert
\* succeeds appends exactly the row of the pending data.
C9_WriteFailureKeepsState ==
    [][\A u \in Users :
         /\ (fsm_state[u] = confirming_expense /\ confirm_expense_handler(u, TRUE))
               => (/\ fsm_state' = fsm_state
                   /\ fsm_data' = fsm_data
                   /\ expenses' = expenses
                   /\ last'.result = "OperationalError")
         /\ (/\ fsm_state[u] = confirming_expense
             /\ last = Answer(u, "confirm_expense_handler", "OperationalError")
             /\ confirm_expense_handler(u, FALSE)
             /\ last'.result = "saved")
               => expenses' = Append(expenses, PendingRow(u, fsm_data[u]))]_vars

\* C9 witness: the insert of a confirm in confirming_expense has just failed,
\* the pending data is still there, and a retry that saves the row can be taken.
C9_Witness ==
    \E u \in Users :
        /\ fsm_state[u] = confirming_expense
        /\ last = Answer(u, "confirm_expense_handler", "OperationalError")
        /\ DOMAIN fsm_data[u] = {"selected_category_id", "amount", "description"}
        /\ ENABLED (confirm_expense_handler(u, FALSE) /\ last'.result = "saved")

\* the data dictionary after each step of a flow begun in state None
FlowData1(c) == UpdateData(EmptyData, "selected_category_id", Some(c))
FlowData2(c, a) == UpdateData(FlowData1(c), "amount", Some(a))
FlowData3(c, a, d) == UpdateData(FlowData2(c, a), "description", d)

\* the inputs of the flow: the selectable categories that exist, the texts
\* that parse to a positive amount, the description a text stands for
FlowCategories == {c \in CategoryInputs : get_category(categories, Some(c)) # None}
FlowAmountTexts ==
    {at \in AmountTexts : ~ParseFloat(at).err /\ Positive(ParseFloat(at).val)}
FlowDescription(dt) == IF dt = "-" THEN None ELSE Some(dt)

\* the step handles an update of user u in the named handler
Handles(u, handler) == last'.user = u /\ last'.handler = handler

\* C10: for an existing category c, a text parsing to a positive amount a and
\* a description text, each step of /add, select c, amount, description,
\* confirm taken from the state the previous step leaves gives the next
\* state of the flow without touching the table, and the confirm appends
\* exactly the row (user, c, a, description or None for '-') and clears the
\* state and the data.
C10_EndToEndFlow ==
    [][\A u \in Users :
         /\ (fsm_state[u] = NoState /\ cmd_add_expense(u))
               => (/\ fsm_state'[u] = waiting_for_category
                   /\ fsm_data'[u] = EmptyData
                   /\ expenses' = expenses)
         /\ (fsm_state[u] = waiting_for_category /\ Handles(u, "process_category_selection"))
               => \A c \in FlowCategories :
                     (fsm_data[u] = EmptyData /\ process_category_selection(u, c))
                        => (/\ fsm_state'[u] = waiting_for_amount
                            /\ fsm_data'[u] = FlowData1(c)
                            /\ expenses' = expenses)
         /\ (fsm_state[u] = waiting_for_amount /\ Handles(u, "process_amount_input"))
               => \A c \in FlowCategories, at \in FlowAmountTexts :
                     (fsm_data[u] = FlowData1(c) /\ process_amount_input(u, at))
                        => (/\ fsm_state'[u] = waiting_for_description
                            /\ fsm_data'[u] = FlowData2(c, ParseFloat(at).val)
                            /\ expenses' = expenses)
         /\ (fsm_state[u] = waiting_for_description /\ Handles(u, "process_description_input"))
               => \A c \in FlowCategories, at \in FlowAmountTexts,
                     dt \in DescriptionTexts :
                     (/\ fsm_data[u] = FlowData2(c, ParseFloat(at).val)
                      /\ process_description_input(u, dt))
                        => (/\ fsm_state'[u] = confirming_expense
                            /\ fsm_data'[u] =
                                  FlowData3(c, ParseFloat(at).val, FlowDescription(dt))
                            /\ expenses' = expenses)
         /\ (fsm_state[u] = confirming_expense /\ Handles(u, "confirm_expense_handler"))
               => \A c \in FlowCategories, at \in FlowAmountTexts,
                     dt \in DescriptionTexts :
                     (/\ fsm_data[u] =
                           FlowData3(c, ParseFloat(at).val, FlowDescription(dt))
                      /\ confirm_expense_handler(u, FALSE))
                        => (/\ expenses' =
                                  Append(expenses,
                                         ExpenseRow(Len(expenses) + 1, u,
                                                    ParseFloat(at).val, c,
                                                    FlowDescription(dt), now))
                            /\ fsm_state'[u] = NoState
                            /\ fsm_data'[u] = EmptyData)]_vars

\* C10 witness: the flow /add, Food, "12.50", "-" has been confirmed: its row
\* is the only one, without description, and the user's state is cleared.
C10_Witness ==
    \E u \in Users :
        /\ last = Answer(u, "confirm_expense_handler", "saved")
        /\ expenses = <<ExpenseRow(1, u, Float(1250), 1, None, 0)>>
        /\ fsm_state[u] = NoState
        /\ fsm_data[u] = EmptyData

C12_CommittedCategoryExists ==
    \A i \in 1..Len(expenses) :
        get_category(categories, Some(expenses[i].category_id)) # None

\* C12, the part that holds: process_description_input with a category id
\* that get_category does not resolve clears the state and the data.
C12_DescriptionStepFailsClosed ==
    [][\A u \in Users, t \in DescriptionTexts :
         (/\ get_category(categories, Get(fsm_data[u], "selected_category_id")) = None
          /\ process_description_input(u, t))
            => /\ fsm_state'[u] = NoState
               /\ fsm_data'[u] = EmptyData
               /\ expenses' = expenses]_vars

\* C19: the data dictionary agrees with the state: in waiting_for_description
\* and in confirming_expense selected_category_id is present and amount is
\* present and strictly greater than 0; in waiting_for_amount
\* selected_category_id is present.
C19_PendingAgreesWithStep ==
    \A u \in Users :
        /\ fsm_state[u] \in {waiting_for_description, confirming_expense}
              => /\ Get(fsm_data[u], "selected_category_id") # None
                 /\ Get(fsm_data[u], "amount") # None
                 /\ Positive(Get(fsm_data[u], "amount")[1])
        /\ fsm_state[u] = waiting_for_amount
              => Get(fsm_data[u], "selected_category_id") # None

\* C19, the part that holds: the fields are present, whatever their values
C19_PendingPresent ==
    \A u \in Users :
        /\ fsm_state[u] \in {waiting_for_description, confirming_expense}
              => /\ Get(fsm_data[u], "selected_category_id") # None
                 /\ Get(fsm_data[u], "amount") # None
        /\ fsm_state[u] = waiting_for_amount
              => Get(fsm_data[u], "selected_category_id") # None

\* C20: a user whose state is None has no pending fields: the data
\* dictionary holds no selected_category_id, no amount and no description.
C20_NoStateNoData ==
    \A u \in Users :
        fsm_state[u] = NoState
            => /\ Get(fsm_data[u], "selected_category_id") = None
               /\ Get(fsm_data[u], "amount") = None
               /\ "description" \notin DOMAIN fsm_data[u]

\* a flow that had stored category 99 and an amount was aborted by the failed
\* category lookup, and nothing of it is left
C20_Witness ==
    \E u \in Users :
        /\ last = Answer(u, "process_description_input", "category_not_found")
        /\ fsm_state[u] = NoState
        /\ fsm_data[u] = EmptyData

\* C14: the name fields of a user record are updated on each later contact:
\* after /start from a user who already has a row, the row holds every name
\* field the update carried (a field the update left out keeps its value),
\* and no row of table users is ever removed.
C14_StartUpdatesNames ==
    [][/\ \A u \in Users, un \in Usernames, fn \in FirstNames, ln \in LastNames :
            (u \in DOMAIN users /\ cmd_start(u, un, fn, ln))
               => /\ u \in DOMAIN users'
                  /\ un # None => users'[u].username = un
                  /\ fn # None => users'[u].first_name = fn
                  /\ ln # None => users'[u].last_name = ln
       /\ DOMAIN users \subseteq DOMAIN users']_vars

\* C14, the parts that hold: /start from a user without a row inserts the
\* row with the names of the update, and no row is ever removed.
C14_CreatedOnFirstStart ==
    [][/\ \A u \in Users, un \in Usernames, fn \in FirstNames, ln \in LastNames :
            (u \notin DOMAIN users /\ cmd_start(u, un, fn, ln))
               => /\ u \in DOMAIN users'
                  /\ users'[u] = UserRow(u, un, fn, ln, now)
       /\ DOMAIN users \subseteq DOMAIN users']_vars

\* C15: add_user inserts the row when the user has none; when the user has
\* one it overwrites exactly the name fields given as not None and leaves
\* every field given as None at its stored value; the rows of other users
\* are untouched; a second call with the same arguments changes nothing.
C15_UpsertUser ==
    [][\A u \in Users, un \in Usernames, fn \in FirstNames \cup {None},
          ln \in LastNames :
         call_add_user(u, un, fn, ln)
            => /\ DOMAIN users' = DOMAIN users \cup {u}
               /\ \A v \in DOMAIN users \ {u} : users'[v] = users[v]
               /\ u \notin DOMAIN users
                     => /\ users'[u].username = un
                        /\ users'[u].first_name = fn
                        /\ users'[u].last_name = ln
               /\ u \in DOMAIN users
                     => /\ users'[u].username =
                              (IF un = None THEN users[u].username ELSE un)
                        /\ users'[u].first_name =
                              (IF fn = None THEN users[u].first_name ELSE fn)
                        /\ users'[u].last_name =
                              (IF ln = None THEN users[u].last_name ELSE ln)
               /\ add_user(users', u, un, fn, ln, now) = users']_vars

\* add_user ran on a stored row with at least one name left out, and the row
\* holds all three names
C15_Witness ==
    \E u \in Users :
        /\ last = Answer(u, "add_user", "updated_some")
        /\ u \in DOMAIN users
        /\ users[u].username # None
        /\ users[u].first_name # None
        /\ users[u].last_name # None

\* C13: expense rows are immutable and append-only: in every step each row
\* of table expenses is still there with every field as it was, so the table
\* only grows.
C13_AppendOnly ==
    [][/\ Len(expenses') >= Len(expenses)
       /\ \A i \in 1..Len(expenses) : expenses'[i] = expenses[i]]_vars

\* Database was constructed again on a file that holds two expense rows,
\* added on different days
C13_Witness ==
    /\ last = Answer(0, "Database", "created_tables")
    /\ Len(expenses) > 1
    /\ expenses[1].date < expenses[2].date

\* C16: constructing Database again on an existing file leaves the rows of
\* table categories as they were: no name appears twice, and every row is
\* still there with its id and its icon.
C16_SeedingIdempotent ==
    [][Database_init
         => /\ \A c \in categories : c \in categories'
            /\ \A c, d \in categories' : c.name = d.name => c = d
            /\ Cardinality(categories') = Cardinality(categories)]_vars

\* Database was constructed again on a file with rows, and the seven default
\* categories are there under the ids 1..7
C16_Witness ==
    /\ last = Answer(0, "Database", "created_tables")
    /\ expenses # <<>>
    /\ categories = DefaultCategories
    /\ {c.id : c \in categories} = 1..Len(default_categories)

\* the rows of table expenses that belong to user_id
UserExpenses(user_id) ==
    {expenses[i] : i \in {j \in 1..Len(expenses) : expenses[j].user_id = user_id}}

\* row a comes before row b in "most recent first, higher id first on a tie"
MoreRecent(a, b) == a.date > b.date \/ (a.date = b.date /\ a.id > b.id)

\* C17: get_user_expenses(user_id, limit) returns min(limit, number of the
\* user's expense rows) rows, each of them a row of that user, the most
\* recent ones, ordered most recent first and, on equal dates, higher id
\* first.
C17_RecentExpenses ==
    [][\A u \in Users, limit \in Limits :
         (Handles(u, "get_user_expenses") /\ call_get_user_expenses(u, limit))
            => LET r == returned'[1]
                   n == Cardinality(UserExpenses(u))
               IN /\ Len(r) = (IF limit < n THEN limit ELSE n)
                  /\ \A k \in DOMAIN r : \E e \in UserExpenses(u) :
                        /\ e.id = r[k].id
                        /\ e.amount = r[k].amount
                        /\ e.date = r[k].date
                  /\ \A j, k \in DOMAIN r : j < k => MoreRecent(r[j], r[k])
                  /\ \A e \in UserExpenses(u) :
                        (\A k \in DOMAIN r : r[k].id # e.id)
                           => \A k \in DOMAIN r : MoreRecent(r[k], e)]_vars

\* C17, the part that holds: the same with the count and the choice taken
\* over the user's rows whose category_id is the id of a category.
C17_RecentJoinedExpenses ==
    [][\A u \in Users, limit \in Limits :
         (Handles(u, "get_user_expenses") /\ call_get_user_expenses(u, limit))
            => LET r == returned'[1]
                   S == {e \in UserExpenses(u) :
                           \E c \in categories : c.id = e.category_id}
                   n == Cardinality(S)
               IN /\ Len(r) = (IF limit < n THEN limit ELSE n)
                  /\ \A k \in DOMAIN r : \E e \in S :
                        /\ e.id = r[k].id
                        /\ e.amount = r[k].amount
                        /\ e.date = r[k].date
                  /\ \A j, k \in DOMAIN r : j < k => MoreRecent(r[j], r[k])
                  /\ \A e \in S :
                        (\A k \in DOMAIN r : r[k].id # e.id)
                           => \A k \in DOMAIN r : MoreRecent(r[k], e)]_vars

\* the sum in hundredths of the amounts of rows 1..i of table expenses that
\* belong to user_id, are dated from `start` to `end`, and are in category
\* category_id (any category when it is None)
RECURSIVE WindowSum(_, _, _, _, _)
WindowSum(i, user_id, start, end, category_id) ==
    IF i = 0 THEN 0
    ELSE WindowSum(i - 1, user_id, start, end, category_id)
         + (IF /\ expenses[i].user_id = user_id
               /\ start <= expenses[i].date
               /\ expenses[i].date <= end
               /\ category_id \in {None, Some(expenses[i].category_id)}
            THEN expenses[i].amount.v ELSE 0)

\* the categories that have an expense of user_id dated from `start` to `end`
WindowCategories(user_id, start, end) ==
    {c \in categories : \E i \in 1..Len(expenses) :
        /\ expenses[i].user_id = user_id
        /\ start <= expenses[i].date
        /\ expenses[i].date <= end
        /\ expenses[i].category_id = c.id}

\* C18: get_user_expense_stats(user_id, days) returns as total the sum of
\* the amounts of exactly that user's expenses dated from now - days to now,
\* one subtotal for each category that has such an expense, ordered by
\* subtotal descending, and total 0 with an empty list when no expense is
\* dated in the window.
C18_ExpenseStats ==
    [][\A u \in Users, days \in WindowDays :
         (Handles(u, "get_user_expense_stats") /\ call_get_user_expense_stats(u, days))
            => LET r == returned'[1]
                   s == r.category_spending
                   C == WindowCategories(u, now - days, now)
               IN /\ r.total_spending =
                        Float(WindowSum(Len(expenses), u, now - days, now, None))
                  /\ Len(s) = Cardinality(C)
                  /\ \A c \in C : \E k \in DOMAIN s :
                        /\ s[k].category_name = c.name
                        /\ s[k].category_total =
                              Float(WindowSum(Len(expenses), u, now - days, now,
                                              Some(c.id)))
                  /\ \A j, k \in DOMAIN s :
                        j < k => s[j].category_total.v >= s[k].category_total.v
                  /\ (\A i \in 1..Len(expenses) :
                         ~(/\ expenses[i].user_id = u
                           /\ now - days <= expenses[i].date
                           /\ expenses[i].date <= now))
                        => r.total_spending = Float(0) /\ s = <<>>]_vars

\* the statistics of the last 0 days were asked on day 1 for a user with an
\* expense of day 0 and one of day 1: only the second is counted
C18_Witness ==
    \E u \in Users :
        /\ last = Answer(u, "get_user_expense_stats", "returned")
        /\ now = 1
        /\ expenses = <<ExpenseRow(1, u, Float(1250), 1, None, 0),
                        ExpenseRow(2, u, Float(700), 2, None, 1)>>
        /\ returned = Some([total_spending |-> Float(700),
                            category_spending |->
                               <<[category_name |-> "Transport",
                                  category_icon |-> "bus",
                                  category_total |-> Float(700)]>>,
                            period_days |-> 0])

\* the sum in hundredths of the category_total of the rows of s
RECURSIVE SumOfSubtotals(_)
SumOfSubtotals(s) ==
    IF s = <<>> THEN 0 ELSE Head(s).category_total.v + SumOfSubtotals(Tail(s))

\* C23: the total returned by get_user_expense_stats for a user and a window
\* equals the sum of the category subtotals returned by the same call.
C23_TotalIsSumOfSubtotals ==
    [][\A u \in Users, days \in WindowDays :
         (Handles(u, "get_user_expense_stats") /\ call_get_user_expense_stats(u, days))
            => returned'[1].total_spending =
                  Float(SumOfSubtotals(returned'[1].category_spending))]_vars

\* C23, the part that holds: the total is the sum of the subtotals plus the
\* amounts of the rows of the window whose category_id is no categories.id.
C23_TotalIsSubtotalsPlusUnjoined ==
    [][\A u \in Users, days \in WindowDays :
         (Handles(u, "get_user_expense_stats") /\ call_get_user_expense_stats(u, days))
            => returned'[1].total_spending.v =
                  SumOfSubtotals(returned'[1].category_spending)
                  + SumAmount({e \in InWindow(expenses, u, days, now) :
                                 \A c \in categories : c.id # e.category_id})]_vars

\* C22: /help, /recent and /stats are read-only: handled in any state of
\* the flow they leave the state and the data of every user and the tables
\* users, categories and expenses as they were.
C22_CommandsReadOnly ==
    [][\A u \in Users :
         (cmd_help(u) \/ cmd_recent_expenses(u) \/ cmd_show_statistics(u))
            => /\ fsm_state' = fsm_state
               /\ fsm_data' = fsm_data
               /\ users' = users
               /\ categories' = categories
               /\ expenses' = expenses]_vars

\* /help was handled while the bot waits for the description, with the
\* category and the amount stored, and the description can still be given
C22_Witness ==
    \E u \in Users :
        /\ last = Answer(u, "cmd_help", "help_text")
        /\ fsm_state[u] = waiting_for_description
        /\ Get(fsm_data[u], "selected_category_id") = Some(1)
        /\ Get(fsm_data[u], "amount") = Some(Float(700))
        /\ ENABLED (/\ process_description_input(u, "lunch")
                    /\ fsm_state'[u] = confirming_expense)

\* the rows of `rows` that belong to user_id
RowsOf(rows, user_id) ==
    {rows[i] : i \in {j \in 1..Len(rows) : rows[j].user_id = user_id}}

\* an update of user a is handled, or a suspended handler of a is resumed
UpdateOf(a) ==
    \/ cmd_add_expense(a)
    \/ \E c \in IsoCategoryInputs : process_category_selection(a, c)
    \/ \E t \in IsoAmountTexts : process_amount_input(a, t)
    \/ \E t \in IsoDescriptionTexts : process_description_input(a, t)
    \/ cancel_confirm_expense_handler(a)
    \/ confirm_expense_begin(a, FALSE)
    \/ \E t \in tasks : t.user = a /\ confirm_expense_end(t)

\* C21: users are isolated: an update of user a, whatever updates of another
\* user b came before it, leaves the state and the data of b as they were
\* and adds or changes no expense row whose user_id is b.
C21_UsersIsolated ==
    [][\A a, b \in Users :
         (a # b /\ last'.user = a /\ UpdateOf(a))
            => /\ fsm_state'[b] = fsm_state[b]
               /\ fsm_data'[b] = fsm_data[b]
               /\ RowsOf(expenses', b) = RowsOf(expenses, b)
               /\ \A i \in 1..Len(expenses) :
                     expenses[i].user_id = b => expenses'[i] = expenses[i]]_vars

\* user 1 confirmed an expense while user 2 was asked to confirm another:
\* user 2's flow is as it was and the ledger holds the row of user 1 only
C21_Witness ==
    /\ last = Answer(1, "confirm_expense_handler", "saved")
    /\ fsm_state[1] = NoState
    /\ fsm_state[2] = confirming_expense
    /\ Get(fsm_data[2], "selected_category_id") = Some(2)
    /\ Get(fsm_data[2], "amount") = Some(Float(700))
    /\ expenses = <<ExpenseRow(1, 1, Float(700), 1, None, 0)>>

====
